---- MODULE Spec2Model ----
(***************************************************************************)
(* netscout: the concurrent scan engine.                                   *)
(*                                                                         *)
(* One scan session (Scanner.Scan) is modelled goroutine by goroutine:     *)
(* the Scan goroutine (generateTasks, Pool.Close, the teardown), the pool  *)
(* workers (Worker.Start / Worker.scan), Scanner.collectResults, the       *)
(* Collector's collect goroutine, Scanner.reportProgress, the rate         *)
(* limiter's ticker and the signal handler of main.  A Go select is one    *)
(* step: among the cases that can proceed any one may be taken, and the    *)
(* step is disabled while none can.  A send on a closed channel panics and *)
(* a panic ends the process (panicked), after which nothing moves.         *)
(*                                                                         *)
(* A second specification, SpecColl, runs the Collector alone with client  *)
(* goroutines that call Submit, Close and GetSummary.                      *)
(***************************************************************************)
EXTENDS Integers, Sequences, FiniteSets, TLC

\* ------------------------------------------------------------------ bounds
MaxWorkers == 2
MaxTasks == 2
MaxSubmits == 3
MaxClients == 2
QueueOverfill == 1
\* interrupts sent to the process in one run
MaxInterrupts == 3
\* host bits of the CIDR blocks that are expanded: the small blocks, and one
\* size of block that spans a byte boundary
MaxHostBits == 3
MaxWideBits == 9
\* comma-separated tokens of a port specification, and the longest range that
\* is expanded
MaxTokens == 3
MaxSpan == 2
\* hosts and ports of the scans whose submission order is followed
OrderHosts == 2
OrderPorts == 2
\* progress lines that are followed
MaxLines == 2
\* rate limits are taken up to this distance from 0 and from time.Second
MaxRate == 30
\* iterations of parseCIDR's loop that are followed from a state in mid-loop
MaxWalk == 200

\* ------------------------------------------------------- program constants
PoolFactor == 10
PoolCeiling == 10000
ResultChanCap == 1000
CollectorChanCap == 1000

StatusOpen == "open"
StatusClosed == "closed"
StatusFiltered == "filtered"
StatusError == "error"

Canceled == "context.Canceled"
NoErr == "nil"
Pending == "pending"

\* outcomes of net.DialTimeout
DialOutcomes == {"connected", "timeout", "refused"}

NoTask == [IP |-> 0, Port |-> 0]
NoResult == [IP |-> 0, Port |-> 0, Status |-> "none"]
ZeroSummary == [TotalScanned |-> 0, OpenPorts |-> 0, ClosedPorts |-> 0, Filtered |-> 0, Errors |-> 0]

VARIABLES
    config,        \* config.Config after Validate: Workers, Targets, Ports, Verbose, RateLimit
    net,           \* the outcomes the network can give to a dial in this run
    cancelled,     \* ctx.Done() is closed
    scanPC,        \* position of the goroutine that runs Scanner.Scan
    hostIdx,       \* generateTasks: index of target in s.targets
    portIdx,       \* generateTasks: index of port in s.ports
    scanErr,       \* what Scan returned (Pending until it returns)
    genErr,        \* err of generateTasks, kept by Scan
    tickC,         \* s.rateLimiter.C: number of ticks buffered (0 or 1)
    taskChan,      \* p.taskChan, buffered
    taskClosed,    \* p.taskChan is closed
    wpc,           \* worker -> position in Worker.Start / Worker.scan
    wtask,         \* worker -> the task it pulled
    wres,          \* worker -> the result it is about to send
    sResultChan,   \* s.resultChan, buffered
    sResultClosed, \* s.resultChan is closed
    fpc,           \* position of Scanner.collectResults
    fheld,         \* the result collectResults holds
    cResultChan,   \* c.resultChan, buffered
    cResultClosed, \* c.resultChan is closed
    doneChan,      \* c.doneChan is closed
    mu,            \* c.mu: "free" or the holder
    cpc,           \* position of Collector.collect
    cheld,         \* the result collect holds
    results,       \* c.results
    summary,       \* c.summary (the counters)
    mpc,           \* position of Scanner.reportProgress
    panicked,      \* the process died of a panic
    cancelAt,      \* history: number of tasks submitted when cancel() was called, -1 before
    submitted,     \* history: tasks for which Pool.Submit returned nil, in order
    pullCount,     \* history: task -> how many times a worker received it
    submitCount,   \* history: number of Collector.Submit calls that returned
    summaryRead,   \* the last value GetSummary returned
    submitsAtRead, \* history: submitCount when GetSummary read it
    hasRead,       \* history: some GetSummary call has returned
    closerPC,      \* SpecColl: position of the goroutine that calls Close
    wout,          \* history: worker -> how its dial ended, "none" outside a probe
    resultsRead,   \* the last value GetResults returned
    readPhase,     \* history: closerPC when GetResults returned it, "none" before
    sigChan,       \* main: number of signals buffered in sigChan (0 or 1)
    sigPC,         \* main: position of the signal goroutine
    interrupts,    \* history: number of SIGINT/SIGTERM delivered to the process
    cancelCalls,   \* history: number of calls of cancel() by the signal goroutine
    killed,        \* the default action of a signal has ended the process
    cidrNet,       \* parseCIDR: ipNet, the masked address and the prefix length
    cidrIP,        \* parseCIDR: the loop variable ip, four bytes
    cidrIPs,       \* parseCIDR: ips
    cidrPC,        \* parseCIDR: position
    ppTokens,      \* ParsePorts: strings.Split(portSpec, ","), trimmed
    ppIdx,         \* ParsePorts: index of part in parts
    ppPorts,       \* ParsePorts: ports
    ppSeen,        \* ParsePorts: seen
    ppErr,         \* ParsePorts: the error returned, "nil" if none
    ppPC,          \* ParsePorts: position
    ticksFired,    \* history: number of ticks s.rateLimiter.C has delivered
    tickLate,      \* history: the buffered tick fired during the present wait, after cancel()
    progressLines, \* number of progress lines reportProgress has printed
    lineLate,      \* history: a progress line was printed after cancel()
    rlRate,        \* scanner.New: cfg.RateLimit
    rlInterval,    \* scanner.New: interval, in nanoseconds
    rlPC           \* scanner.New: position around the creation of the limiter

vars == <<config, net, cancelled, scanPC, hostIdx, portIdx, scanErr, genErr, tickC,
          taskChan, taskClosed, wpc, wtask, wres, sResultChan, sResultClosed,
          fpc, fheld, cResultChan, cResultClosed, doneChan, mu, cpc, cheld,
          results, summary, mpc, panicked, cancelAt, submitted,
          pullCount, submitCount, summaryRead, submitsAtRead, hasRead,
          closerPC, wout, resultsRead, readPhase, sigChan, sigPC, interrupts,
          cancelCalls, killed, cidrNet, cidrIP, cidrIPs, cidrPC, ppTokens, ppIdx,
          ppPorts, ppSeen, ppErr, ppPC, ticksFired, tickLate,
          progressLines, lineLate, rlRate, rlInterval, rlPC>>

\* groups used in UNCHANGED
cfgVars == <<config, net>>
genVars == <<hostIdx, portIdx, genErr, tickC>>
poolVars == <<taskChan, taskClosed, wpc, wtask, wres, pullCount>>
fwdVars == <<fpc, fheld>>
collChanVars == <<cResultChan, cResultClosed, submitCount>>
collVars == <<doneChan, mu, cpc, cheld, results, summary>>
readVars == <<summaryRead, submitsAtRead, hasRead>>
getVars == <<resultsRead, readPhase>>
sigVars == <<sigChan, sigPC, interrupts, cancelCalls, killed>>
cidrVars == <<cidrNet, cidrIP, cidrIPs, cidrPC>>
ppVars == <<ppTokens, ppIdx, ppPorts, ppSeen, ppErr, ppPC>>
rateVars == <<ticksFired, tickLate>>
progVars == <<progressLines, lineLate>>
limVars == <<rlRate, rlInterval, rlPC>>
restVars == <<getVars, sigVars, cidrVars, ppVars, limVars>>
auxVars == <<restVars, rateVars, progVars>>

Min(a, b) == IF a < b THEN a ELSE b

Workers == 1 .. config.Workers
targets == config.Targets
ports == config.Ports
totalTasks == Len(targets) * Len(ports)

\* the hosts x ports cross-product of the session
AllTasks == {[IP |-> targets[h], Port |-> ports[p]] : h \in 1 .. Len(targets), p \in 1 .. Len(ports)}

Range(s) == {s[i] : i \in 1 .. Len(s)}

\* NewPool: bufferSize := size * 10, capped at 10000
BufferSize(size) == IF size * PoolFactor > PoolCeiling THEN PoolCeiling ELSE size * PoolFactor

\* Config.Validate, the numeric part
Validate(c) == /\ Len(c.Targets) # 0
               /\ Len(c.Ports) # 0
               /\ c.Workers >= 1
               /\ c.Workers <= 10000
               /\ c.RateLimit >= 0

ClassifyTimeoutClosed(outcome) == IF outcome = "connected" THEN StatusOpen
                                  ELSE StatusClosed

\* Worker.scan: the status of a dial outcome
Classify(outcome) == IF outcome = "connected" THEN StatusOpen
                     ELSE IF outcome = "timeout" THEN StatusFiltered
                     ELSE StatusClosed

\* Collector.updateSummary, first statement
IncTotal(s) == [s EXCEPT !.TotalScanned = @ + 1]

\* Collector.updateSummary, the switch on r.Status
IncStatus(s, st) == IF st = StatusOpen THEN [s EXCEPT !.OpenPorts = @ + 1]
                    ELSE IF st = StatusClosed THEN [s EXCEPT !.ClosedPorts = @ + 1]
                    ELSE IF st = StatusFiltered THEN [s EXCEPT !.Filtered = @ + 1]
                    ELSE IF st = StatusError THEN [s EXCEPT !.Errors = @ + 1]
                    ELSE s

\* the less function WriteResults gives to sort.Slice
Less(a, b) == IF a.IP # b.IP THEN a.IP < b.IP ELSE a.Port < b.Port

RECURSIVE Insert(_, _)
Insert(s, r) == IF s = <<>> THEN <<r>>
                ELSE IF Less(r, Head(s)) THEN <<r>> \o s
                ELSE <<Head(s)>> \o Insert(Tail(s), r)

\* SortResults that leaves the slice as it is
SortResultsNone(s) == s

RECURSIVE SortResults(_)
SortResults(s) == IF s = <<>> THEN <<>> ELSE Insert(SortResults(Tail(s)), Head(s))

\* ------------------------------------------------------------ initial state
\* the configurations of the session: Validate accepts every one of them
Configs == {c \in [Workers : 1 .. MaxWorkers,
                   Targets : {[i \in 1 .. h |-> i] : h \in 1 .. MaxTasks},
                   Ports : {[i \in 1 .. p |-> i] : p \in 1 .. MaxTasks},
                   Verbose : BOOLEAN,
                   RateLimit : {0, 1}] :
               Len(c.Targets) * Len(c.Ports) <= MaxTasks /\ Validate(c)}

\* scanner.New and NewCollector have run, main has made ctx; Scan is not yet called
InitState(c, n, spc, clpc) ==
    /\ config = c
    /\ net = n
    /\ cancelled = FALSE
    /\ scanPC = spc
    /\ hostIdx = 1
    /\ portIdx = 1
    /\ scanErr = Pending
    /\ genErr = Pending
    /\ tickC = 0
    /\ taskChan = <<>>
    /\ taskClosed = FALSE
    /\ wpc = [w \in 1 .. c.Workers |-> "new"]
    /\ wtask = [w \in 1 .. c.Workers |-> NoTask]
    /\ wres = [w \in 1 .. c.Workers |-> NoResult]
    /\ sResultChan = <<>>
    /\ sResultClosed = FALSE
    /\ fpc = "new"
    /\ fheld = NoResult
    /\ cResultChan = <<>>
    /\ cResultClosed = FALSE
    /\ doneChan = FALSE
    /\ mu = "free"
    /\ cpc = "recv"
    /\ cheld = NoResult
    /\ results = <<>>
    /\ summary = ZeroSummary
    /\ mpc = "new"
    /\ panicked = FALSE
    /\ cancelAt = -1
    /\ submitted = <<>>
    /\ pullCount = [t \in {[IP |-> c.Targets[h], Port |-> c.Ports[p]] :
                              h \in 1 .. Len(c.Targets), p \in 1 .. Len(c.Ports)} |-> 0]
    /\ submitCount = 0
    /\ summaryRead = ZeroSummary
    /\ submitsAtRead = 0
    /\ hasRead = FALSE
    /\ closerPC = clpc
    /\ wout = [w \in 1 .. c.Workers |-> "none"]
    /\ ticksFired = 0
    /\ tickLate = FALSE
    /\ progressLines = 0
    /\ lineLate = FALSE

\* nobody has called GetResults
GetIdle == resultsRead = <<>> /\ readPhase = "none"

\* main has called signal.Notify and started the signal goroutine
SigInit ==
    /\ sigChan = 0
    /\ sigPC = "wait"
    /\ interrupts = 0
    /\ cancelCalls = 0
    /\ killed = FALSE

\* parseCIDR is not running
CidrIdle ==
    /\ cidrNet = [IP |-> <<0, 0, 0, 0>>, Bits |-> 0]
    /\ cidrIP = <<0, 0, 0, 0>>
    /\ cidrIPs = <<>>
    /\ cidrPC = "none"

\* ParsePorts is not running
PortsIdle ==
    /\ ppTokens = <<>>
    /\ ppIdx = 0
    /\ ppPorts = <<>>
    /\ ppSeen = {}
    /\ ppErr = NoErr
    /\ ppPC = "none"

\* scanner.New has not yet reached the creation of the limiter
LimiterIdle ==
    /\ rlRate = 0
    /\ rlInterval = 0
    /\ rlPC = "none"

\* the networks of a run: every dial of the run ends the same way
Nets == {{o} : o \in DialOutcomes}

Init == /\ \E c \in Configs, n \in Nets : InitState(c, n, "start", "none")
        /\ GetIdle /\ SigInit /\ CidrIdle /\ PortsIdle /\ LimiterIdle

\* ------------------------------------------------------------ cancellation
\* main: the signal goroutine calls cancel()
Cancel ==
    /\ ~cancelled
    /\ cancelled' = TRUE
    /\ cancelAt' = Len(submitted)
    /\ UNCHANGED <<cfgVars, auxVars, wout, scanPC, scanErr, genVars, poolVars, sResultChan, sResultClosed,
                   fwdVars, collChanVars, collVars, mpc, panicked, submitted,
                   readVars, closerPC>>

\* -------------------------------------------------------------- the limiter
\* time.Ticker of scanner.New: a tick is dropped while one is still buffered
Tick ==
    /\ config.RateLimit > 0
    /\ tickC = 0
    /\ tickC' = 1
    /\ ticksFired' = ticksFired + 1
    /\ tickLate' = (cancelled /\ scanPC = "genRate")
    /\ UNCHANGED <<cfgVars, restVars, progVars, wout, cancelAt, cancelled, scanPC, scanErr, hostIdx, portIdx, genErr, poolVars,
                   sResultChan, sResultClosed, fwdVars, collChanVars, collVars, mpc,
                   panicked, submitted, readVars, closerPC>>

\* ------------------------------------------------------------- Scanner.Scan
\* Scan: s.pool.Start(ctx); go s.collectResults(); go s.reportProgress if verbose
ScanStart ==
    /\ scanPC = "start"
    /\ wpc' = [w \in Workers |-> "select"]
    /\ fpc' = "recv"
    /\ mpc' = IF config.Verbose THEN "select" ELSE "off"
    /\ scanPC' = "genCheck"
    /\ UNCHANGED <<cfgVars, auxVars, wout, cancelAt, cancelled, scanErr, genVars, taskChan, taskClosed, wtask, wres,
                   pullCount, sResultChan, sResultClosed, fheld, collChanVars, collVars,
                   panicked, submitted, readVars, closerPC>>

GenCheckIgnoresCancel ==
    /\ scanPC = "genCheck"
    /\ genErr' = genErr
    /\ scanPC' = IF config.RateLimit > 0 THEN "genRate" ELSE "genSubmit"
    /\ UNCHANGED <<cfgVars, auxVars, wout, cancelAt, cancelled, scanErr, hostIdx, portIdx, tickC, poolVars, sResultChan,
                   sResultClosed, fwdVars, collChanVars, collVars, mpc, panicked,
                   submitted, readVars, closerPC>>

\* generateTasks: select { case <-ctx.Done(): return ctx.Err(); default: }
GenCheck ==
    /\ scanPC = "genCheck"
    /\ IF cancelled
       THEN genErr' = Canceled /\ scanPC' = "poolClose"
       ELSE genErr' = genErr /\ scanPC' = IF config.RateLimit > 0 THEN "genRate" ELSE "genSubmit"
    /\ UNCHANGED <<cfgVars, auxVars, wout, cancelAt, cancelled, scanErr, hostIdx, portIdx, tickC, poolVars, sResultChan,
                   sResultClosed, fwdVars, collChanVars, collVars, mpc, panicked,
                   submitted, readVars, closerPC>>

\* generateTasks: select { case <-ctx.Done(): return ctx.Err(); case <-s.rateLimiter.C: }
GenRateCancelled ==
    /\ scanPC = "genRate"
    /\ cancelled
    /\ genErr' = Canceled
    /\ scanPC' = "poolClose"
    /\ tickLate' = FALSE
    /\ UNCHANGED <<cfgVars, restVars, progVars, ticksFired, wout, cancelAt, cancelled, scanErr, hostIdx, portIdx, tickC, poolVars, sResultChan,
                   sResultClosed, fwdVars, collChanVars, collVars, mpc, panicked,
                   submitted, readVars, closerPC>>

GenRateTickFree ==
    /\ scanPC = "genRate"
    /\ tickC' = tickC
    /\ scanPC' = "genSubmit"
    /\ tickLate' = FALSE
    /\ UNCHANGED <<cfgVars, restVars, progVars, ticksFired, wout, cancelAt, cancelled, scanErr, hostIdx, portIdx, genErr, poolVars, sResultChan,
                   sResultClosed, fwdVars, collChanVars, collVars, mpc, panicked,
                   submitted, readVars, closerPC>>

GenRateTick ==
    /\ scanPC = "genRate"
    /\ tickC > 0
    /\ tickC' = tickC - 1
    /\ scanPC' = "genSubmit"
    /\ tickLate' = FALSE
    /\ UNCHANGED <<cfgVars, restVars, progVars, ticksFired, wout, cancelAt, cancelled, scanErr, hostIdx, portIdx, genErr, poolVars, sResultChan,
                   sResultClosed, fwdVars, collChanVars, collVars, mpc, panicked,
                   submitted, readVars, closerPC>>

\* SubmitCancelled with the error lost: the cancelled case returns nil, the task
\* is not enqueued and generateTasks goes on as after a send
SubmitCancelledReturnsNil ==
    /\ scanPC = "genSubmit"
    /\ cancelled
    /\ IF portIdx < Len(ports)
       THEN hostIdx' = hostIdx /\ portIdx' = portIdx + 1 /\ genErr' = genErr /\ scanPC' = "genCheck"
       ELSE IF hostIdx < Len(targets)
       THEN hostIdx' = hostIdx + 1 /\ portIdx' = 1 /\ genErr' = genErr /\ scanPC' = "genCheck"
       ELSE hostIdx' = hostIdx /\ portIdx' = portIdx /\ genErr' = NoErr /\ scanPC' = "poolClose"
    /\ UNCHANGED <<cfgVars, auxVars, wout, cancelAt, cancelled, scanErr, tickC, poolVars, sResultChan,
                   sResultClosed, fwdVars, collChanVars, collVars, mpc, panicked,
                   submitted, readVars, closerPC>>

\* Pool.Submit, case <-ctx.Done(): return ctx.Err()
SubmitCancelled ==
    /\ scanPC = "genSubmit"
    /\ cancelled
    /\ scanPC' = "submitFailed"
    /\ UNCHANGED <<cfgVars, auxVars, wout, cancelAt, cancelled, scanErr, genVars, poolVars, sResultChan,
                   sResultClosed, fwdVars, collChanVars, collVars, mpc, panicked,
                   submitted, readVars, closerPC>>

\* generateTasks: if err := s.pool.Submit(ctx, task); err != nil { return err }
GenSubmitFailed ==
    /\ scanPC = "submitFailed"
    /\ genErr' = Canceled
    /\ scanPC' = "poolClose"
    /\ UNCHANGED <<cfgVars, auxVars, wout, cancelAt, cancelled, scanErr, hostIdx, portIdx, tickC, poolVars,
                   sResultChan, sResultClosed, fwdVars, collChanVars, collVars, mpc, panicked,
                   submitted, readVars, closerPC>>

\* SendReady of an unbounded queue: the send never waits
SendAlwaysReady == TRUE

\* Pool.Submit, case p.taskChan <- task: the send can proceed while the buffer has room
SendReady == Len(taskChan) < BufferSize(config.Workers)

SubmitSendPortMajor ==
    /\ scanPC = "genSubmit"
    /\ SendReady
    /\ taskChan' = Append(taskChan, [IP |-> targets[hostIdx], Port |-> ports[portIdx]])
    /\ submitted' = Append(submitted, [IP |-> targets[hostIdx], Port |-> ports[portIdx]])
    /\ IF hostIdx < Len(targets)
       THEN hostIdx' = hostIdx + 1 /\ portIdx' = portIdx /\ genErr' = genErr /\ scanPC' = "genCheck"
       ELSE IF portIdx < Len(ports)
       THEN hostIdx' = 1 /\ portIdx' = portIdx + 1 /\ genErr' = genErr /\ scanPC' = "genCheck"
       ELSE hostIdx' = hostIdx /\ portIdx' = portIdx /\ genErr' = NoErr /\ scanPC' = "poolClose"
    /\ UNCHANGED <<cfgVars, auxVars, wout, cancelAt, cancelled, scanErr, tickC, taskClosed, wpc, wtask, wres, pullCount,
                   sResultChan, sResultClosed, fwdVars, collChanVars, collVars, mpc, panicked, readVars, closerPC>>

\* Pool.Submit, case p.taskChan <- task: return nil; generateTasks goes on
\* with the next port, then the next target, and returns nil after the last
SubmitSend ==
    /\ scanPC = "genSubmit"
    /\ SendReady
    /\ taskChan' = Append(taskChan, [IP |-> targets[hostIdx], Port |-> ports[portIdx]])
    /\ submitted' = Append(submitted, [IP |-> targets[hostIdx], Port |-> ports[portIdx]])
    /\ IF portIdx < Len(ports)
       THEN hostIdx' = hostIdx /\ portIdx' = portIdx + 1 /\ genErr' = genErr /\ scanPC' = "genCheck"
       ELSE IF hostIdx < Len(targets)
       THEN hostIdx' = hostIdx + 1 /\ portIdx' = 1 /\ genErr' = genErr /\ scanPC' = "genCheck"
       ELSE hostIdx' = hostIdx /\ portIdx' = portIdx /\ genErr' = NoErr /\ scanPC' = "poolClose"
    /\ UNCHANGED <<cfgVars, auxVars, wout, cancelAt, cancelled, scanErr, tickC, taskClosed, wpc, wtask, wres, pullCount,
                   sResultChan, sResultClosed, fwdVars, collChanVars, collVars, mpc, panicked, readVars, closerPC>>

\* Pool.Close: close(p.taskChan), nothing else
PoolClose ==
    /\ scanPC = "poolClose"
    /\ taskClosed' = TRUE
    /\ scanPC' = IF config.Verbose THEN "progressWait" ELSE "closeResults"
    /\ UNCHANGED <<cfgVars, auxVars, wout, cancelAt, cancelled, scanErr, genVars, taskChan, wpc, wtask, wres, pullCount,
                   sResultChan, sResultClosed, fwdVars, collChanVars, collVars, mpc, panicked, submitted, readVars, closerPC>>

\* Scan: progressWg.Wait()
ProgressWait ==
    /\ scanPC = "progressWait"
    /\ mpc = "done"
    /\ scanPC' = "closeResults"
    /\ UNCHANGED <<cfgVars, auxVars, wout, cancelAt, cancelled, scanErr, genVars, poolVars, sResultChan, sResultClosed,
                   fwdVars, collChanVars, collVars, mpc, panicked, submitted,
                   readVars, closerPC>>

\* Scan: close(s.resultChan)
CloseResults ==
    /\ scanPC = "closeResults"
    /\ sResultClosed' = TRUE
    /\ scanPC' = "collectorClose"
    /\ UNCHANGED <<cfgVars, auxVars, wout, cancelAt, cancelled, scanErr, genVars, poolVars, sResultChan, fwdVars,
                   collChanVars, collVars, mpc, panicked, submitted, readVars,
                   closerPC>>

CloseResultChanIdempotent ==
    /\ IF cResultClosed
       THEN panicked' = panicked /\ cResultClosed' = cResultClosed
       ELSE panicked' = panicked /\ cResultClosed' = TRUE
    /\ UNCHANGED <<cResultChan, submitCount>>

\* Collector.Close: close(c.resultChan); closing a closed channel panics
CloseResultChan ==
    /\ IF cResultClosed
       THEN panicked' = TRUE /\ cResultClosed' = cResultClosed
       ELSE panicked' = panicked /\ cResultClosed' = TRUE
    /\ UNCHANGED <<cResultChan, submitCount>>

\* Scan: s.collector.Close(), up to the wait on doneChan
ScanCollectorClose ==
    /\ scanPC = "collectorClose"
    /\ CloseResultChan
    /\ scanPC' = "waitDone"
    /\ UNCHANGED <<cfgVars, auxVars, wout, cancelAt, cancelled, scanErr, genVars, poolVars, sResultChan, sResultClosed,
                   fwdVars, collVars, mpc, submitted, readVars, closerPC>>

\* Collector.Close: <-c.doneChan, then the end time is set
ScanWaitDone ==
    /\ scanPC = "waitDone"
    /\ doneChan
    /\ scanPC' = "writeResults"
    /\ UNCHANGED <<cfgVars, auxVars, wout, cancelAt, cancelled, scanErr, genVars, poolVars, sResultChan, sResultClosed,
                   fwdVars, collChanVars, collVars, mpc, panicked, submitted,
                   readVars, closerPC>>

\* Collector.WriteResults under c.mu: sorts c.results in place and writes them;
\* then Scan returns the err of generateTasks (the writer is taken not to fail)
WriteResults ==
    /\ scanPC = "writeResults"
    /\ mu = "free"
    /\ results' = SortResults(results)
    /\ scanErr' = genErr
    /\ scanPC' = "returned"
    /\ UNCHANGED <<cfgVars, auxVars, wout, cancelAt, cancelled, genVars, poolVars, sResultChan, sResultClosed, fwdVars,
                   collChanVars, doneChan, mu, cpc, cheld, summary, mpc, panicked,
                   submitted, readVars, closerPC>>

\* ------------------------------------------------------------------ workers
\* Worker.Start, case <-ctx.Done(): return
WorkerCtxDone(w) ==
    /\ wpc[w] = "select"
    /\ cancelled
    /\ wpc' = [wpc EXCEPT ![w] = "exit"]
    /\ UNCHANGED <<cfgVars, auxVars, wout, cancelAt, cancelled, scanPC, scanErr, genVars, taskChan, taskClosed, wtask,
                   wres, pullCount, sResultChan, sResultClosed, fwdVars, collChanVars, collVars,
                   mpc, panicked, submitted, readVars, closerPC>>

\* WorkerReceive that reads the head of the queue and leaves it there
WorkerReceiveNoDequeue(w) ==
    /\ wpc[w] = "select"
    /\ taskChan # <<>>
    /\ wtask' = [wtask EXCEPT ![w] = Head(taskChan)]
    /\ pullCount' = [pullCount EXCEPT ![Head(taskChan)] = @ + 1]
    /\ wpc' = [wpc EXCEPT ![w] = "dial"]
    /\ UNCHANGED <<cfgVars, auxVars, wout, cancelAt, cancelled, scanPC, scanErr, genVars, taskChan, taskClosed,
                   wres, sResultChan, sResultClosed, fwdVars, collChanVars, collVars, mpc,
                   panicked, submitted, readVars, closerPC>>

\* Worker.Start, case task, ok := <-w.taskChan with ok: w.scan(task) begins
WorkerReceive(w) ==
    /\ wpc[w] = "select"
    /\ taskChan # <<>>
    /\ wtask' = [wtask EXCEPT ![w] = Head(taskChan)]
    /\ taskChan' = Tail(taskChan)
    /\ pullCount' = [pullCount EXCEPT ![Head(taskChan)] = @ + 1]
    /\ wpc' = [wpc EXCEPT ![w] = "dial"]
    /\ UNCHANGED <<cfgVars, auxVars, wout, cancelAt, cancelled, scanPC, scanErr, genVars, taskClosed, wres, sResultChan,
                   sResultClosed, fwdVars, collChanVars, collVars, mpc, panicked,
                   submitted, readVars, closerPC>>

\* Worker.Start, case task, ok := <-w.taskChan with !ok: return
WorkerChanClosed(w) ==
    /\ wpc[w] = "select"
    /\ taskChan = <<>>
    /\ taskClosed
    /\ wpc' = [wpc EXCEPT ![w] = "exit"]
    /\ UNCHANGED <<cfgVars, auxVars, wout, cancelAt, cancelled, scanPC, scanErr, genVars, taskChan, taskClosed, wtask,
                   wres, pullCount, sResultChan, sResultClosed, fwdVars, collChanVars, collVars,
                   mpc, panicked, submitted, readVars, closerPC>>

\* Worker.scan: net.DialTimeout and the classification of its outcome
WorkerDial(w) ==
    /\ wpc[w] = "dial"
    /\ \E o \in net :
          /\ wres' = [wres EXCEPT ![w] = [IP |-> wtask[w].IP, Port |-> wtask[w].Port,
                                          Status |-> Classify(o)]]
          /\ wout' = [wout EXCEPT ![w] = o]
    /\ wpc' = [wpc EXCEPT ![w] = "send"]
    /\ UNCHANGED <<cfgVars, auxVars, cancelAt, cancelled, scanPC, scanErr, genVars, taskChan, taskClosed, wtask,
                   pullCount, sResultChan, sResultClosed, fwdVars, collChanVars, collVars,
                   mpc, panicked, submitted, readVars, closerPC>>

\* Worker.scan: w.resultChan <- r; the send panics when Scan has closed the channel
WorkerSend(w) ==
    /\ wpc[w] = "send"
    /\ IF sResultClosed
       THEN /\ panicked' = TRUE
            /\ UNCHANGED <<sResultChan, wpc, wtask, wres, wout>>
       ELSE /\ Len(sResultChan) < ResultChanCap
            /\ sResultChan' = Append(sResultChan, wres[w])
            /\ wpc' = [wpc EXCEPT ![w] = "select"]
            /\ wtask' = [wtask EXCEPT ![w] = NoTask]
            /\ wres' = [wres EXCEPT ![w] = NoResult]
            /\ wout' = [wout EXCEPT ![w] = "none"]
            /\ panicked' = panicked
    /\ UNCHANGED <<cfgVars, auxVars, cancelAt, cancelled, scanPC, scanErr, genVars, taskChan, taskClosed,
                   pullCount, sResultClosed, fwdVars, collChanVars, collVars, mpc, submitted, readVars, closerPC>>

\* --------------------------------------------------- Scanner.collectResults
\* for r := range s.resultChan, a result is received
ForwardReceive ==
    /\ fpc = "recv"
    /\ sResultChan # <<>>
    /\ fheld' = Head(sResultChan)
    /\ sResultChan' = Tail(sResultChan)
    /\ fpc' = "submit"
    /\ UNCHANGED <<cfgVars, auxVars, wout, cancelAt, cancelled, scanPC, scanErr, genVars, poolVars, sResultClosed,
                   collChanVars, collVars, mpc, panicked, submitted, readVars,
                   closerPC>>

\* for r := range s.resultChan, the channel is closed and drained: return
ForwardChanClosed ==
    /\ fpc = "recv"
    /\ sResultChan = <<>>
    /\ sResultClosed
    /\ fpc' = "exit"
    /\ UNCHANGED <<cfgVars, auxVars, wout, cancelAt, cancelled, scanPC, scanErr, genVars, poolVars, sResultChan,
                   sResultClosed, fheld, collChanVars, collVars, mpc, panicked,
                   submitted, readVars, closerPC>>

\* Collector.Submit: c.resultChan <- r; the send panics on a closed channel
CollectorSubmit(r) ==
    IF cResultClosed
    THEN /\ panicked' = TRUE
         /\ UNCHANGED <<cResultChan, submitCount>>
    ELSE /\ Len(cResultChan) < CollectorChanCap
         /\ cResultChan' = Append(cResultChan, r)
         /\ submitCount' = submitCount + 1
         /\ panicked' = panicked

\* collectResults: s.collector.Submit(r)
ForwardSubmit ==
    /\ fpc = "submit"
    /\ CollectorSubmit(fheld)
    /\ IF cResultClosed
       THEN UNCHANGED <<fpc, fheld>>
       ELSE fpc' = "recv" /\ fheld' = NoResult
    /\ UNCHANGED <<cfgVars, auxVars, wout, cancelAt, cancelled, scanPC, scanErr, genVars, poolVars, sResultChan,
                   sResultClosed, cResultClosed, collVars, mpc, submitted,
                   readVars, closerPC>>

\* -------------------------------------------------------- Collector.collect
\* for r := range c.resultChan, a result is received
CollectReceive ==
    /\ cpc = "recv"
    /\ cResultChan # <<>>
    /\ cheld' = Head(cResultChan)
    /\ cResultChan' = Tail(cResultChan)
    /\ cpc' = "lock"
    /\ UNCHANGED <<cfgVars, auxVars, wout, cancelAt, cancelled, scanPC, scanErr, genVars, poolVars, sResultChan,
                   sResultClosed, fwdVars, cResultClosed, submitCount, doneChan, mu, results,
                   summary, mpc, panicked, submitted, readVars, closerPC>>

\* c.mu.Lock()
CollectLock ==
    /\ cpc = "lock"
    /\ mu = "free"
    /\ mu' = "collect"
    /\ cpc' = "append"
    /\ UNCHANGED <<cfgVars, auxVars, wout, cancelAt, cancelled, scanPC, scanErr, genVars, poolVars, sResultChan,
                   sResultClosed, fwdVars, collChanVars, doneChan, cheld, results, summary,
                   mpc, panicked, submitted, readVars, closerPC>>

\* CollectAppend that appends the result and forgets to count it
CollectAppendNoCount ==
    /\ cpc = "append"
    /\ results' = Append(results, cheld)
    /\ cpc' = "count"
    /\ UNCHANGED <<cfgVars, auxVars, wout, cancelAt, cancelled, scanPC, scanErr, genVars, poolVars, sResultChan,
                   sResultClosed, fwdVars, collChanVars, doneChan, mu, cheld, summary, mpc,
                   panicked, submitted, readVars, closerPC>>

\* c.results = append(c.results, r); updateSummary: c.summary.TotalScanned++
CollectAppend ==
    /\ cpc = "append"
    /\ results' = Append(results, cheld)
    /\ summary' = IncTotal(summary)
    /\ cpc' = "count"
    /\ UNCHANGED <<cfgVars, auxVars, wout, cancelAt, cancelled, scanPC, scanErr, genVars, poolVars, sResultChan,
                   sResultClosed, fwdVars, collChanVars, doneChan, mu, cheld, mpc, panicked, submitted, readVars, closerPC>>

\* updateSummary: the switch on r.Status; then c.mu.Unlock()
CollectCount ==
    /\ cpc = "count"
    /\ summary' = IncStatus(summary, cheld.Status)
    /\ mu' = "free"
    /\ cheld' = NoResult
    /\ cpc' = "recv"
    /\ UNCHANGED <<cfgVars, auxVars, wout, cancelAt, cancelled, scanPC, scanErr, genVars, poolVars, sResultChan,
                   sResultClosed, fwdVars, collChanVars, doneChan, results, mpc, panicked, submitted, readVars, closerPC>>

\* CollectDone that stops as soon as the channel is closed, queued results or not
CollectDoneEarly ==
    /\ cpc = "recv"
    /\ cResultClosed
    /\ doneChan' = TRUE
    /\ cpc' = "exit"
    /\ UNCHANGED <<cfgVars, auxVars, wout, cancelAt, cancelled, scanPC, scanErr, genVars, poolVars, sResultChan,
                   sResultClosed, fwdVars, collChanVars, mu, cheld, results, summary, mpc,
                   panicked, submitted, readVars, closerPC>>

\* the range loop ends on the closed, drained channel: close(c.doneChan)
CollectDone ==
    /\ cpc = "recv"
    /\ cResultChan = <<>>
    /\ cResultClosed
    /\ doneChan' = TRUE
    /\ cpc' = "exit"
    /\ UNCHANGED <<cfgVars, auxVars, wout, cancelAt, cancelled, scanPC, scanErr, genVars, poolVars, sResultChan,
                   sResultClosed, fwdVars, collChanVars, mu, cheld, results, summary, mpc,
                   panicked, submitted, readVars, closerPC>>

\* ----------------------------------------------------- Collector.GetSummary
\* GetSummary that copies c.summary without taking c.mu
GetSummaryNoLock(s) == s = summary

\* c.mu.Lock(); defer c.mu.Unlock(); return c.summary: the call returns s
GetSummary(s) ==
    /\ mu = "free"
    /\ s = summary

\* --------------------------------------------------- Scanner.reportProgress
\* case <-ctx.Done(): return
MonitorCtxDone ==
    /\ mpc = "select"
    /\ cancelled
    /\ mpc' = "done"
    /\ UNCHANGED <<cfgVars, auxVars, wout, cancelAt, cancelled, scanPC, scanErr, genVars, poolVars, sResultChan,
                   sResultClosed, fwdVars, collChanVars, collVars, panicked,
                   submitted, readVars, closerPC>>

MonitorSampleNoStop ==
    /\ mpc = "select"
    /\ \E s \in {summary} :
          /\ GetSummary(s)
          /\ mpc' = "select"
    /\ UNCHANGED <<cfgVars, restVars, rateVars, wout, cancelAt, cancelled, scanPC, scanErr, genVars, poolVars, sResultChan,
                   sResultClosed, fwdVars, collChanVars, collVars, panicked,
                   submitted, readVars, closerPC>>

\* case <-ticker.C: read the summary, print the progress line (lastCount only
\* feeds the printed rate), return when currentCount >= totalTasks
MonitorSample ==
    /\ mpc = "select"
    /\ \E s \in {summary} :
          /\ GetSummary(s)
          /\ mpc' = IF s.TotalScanned >= totalTasks THEN "done" ELSE "select"
    /\ UNCHANGED <<cfgVars, restVars, rateVars, wout, cancelAt, cancelled, scanPC, scanErr, genVars, poolVars, sResultChan,
                   sResultClosed, fwdVars, collChanVars, collVars, panicked,
                   submitted, readVars, closerPC>>

\* a sampling tick of the monitor, the printed line not recorded
MonitorTick ==
    /\ MonitorSample
    /\ UNCHANGED progVars

\* a sampling tick of the monitor with its fmt.Printf of the progress line
MonitorReport ==
    /\ progressLines < MaxLines
    /\ MonitorSample
    /\ progressLines' = progressLines + 1
    /\ lineLate' = (lineLate \/ cancelled)

\* --------------------------------------------------------- the scan session
Next ==
    /\ ~panicked
    /\ \/ Cancel
       \/ Tick
       \/ ScanStart
       \/ GenCheck
       \/ GenRateCancelled
       \/ GenRateTick
       \/ SubmitCancelled
       \/ GenSubmitFailed
       \/ SubmitSend
       \/ PoolClose
       \/ ProgressWait
       \/ CloseResults
       \/ ScanCollectorClose
       \/ ScanWaitDone
       \/ WriteResults
       \/ \E w \in Workers : WorkerCtxDone(w)
       \/ \E w \in Workers : WorkerReceive(w)
       \/ \E w \in Workers : WorkerChanClosed(w)
       \/ \E w \in Workers : WorkerDial(w)
       \/ \E w \in Workers : WorkerSend(w)
       \/ ForwardReceive
       \/ ForwardChanClosed
       \/ ForwardSubmit
       \/ CollectReceive
       \/ CollectLock
       \/ CollectAppend
       \/ CollectCount
       \/ CollectDone
       \/ MonitorCtxDone
       \/ MonitorTick

Spec == Init /\ [][Next]_vars

\* --------------------------------------------------- the backpressure runs
\* one worker and more tasks than its queue holds, so that Submit meets a
\* full queue; no rate limiter, no progress monitor
FullConfig == [Workers |-> 1,
               Targets |-> [i \in 1 .. BufferSize(1) + QueueOverfill |-> i],
               Ports |-> <<1>>,
               Verbose |-> FALSE,
               RateLimit |-> 0]

InitFull == /\ InitState(FullConfig, {"refused"}, "start", "none")
            /\ GetIdle /\ SigInit /\ CidrIdle /\ PortsIdle /\ LimiterIdle

NextFull ==
    /\ ~panicked
    /\ \/ Cancel
       \/ ScanStart
       \/ GenCheck
       \/ SubmitCancelled
       \/ GenSubmitFailed
       \/ SubmitSend
       \/ PoolClose
       \/ CloseResults
       \/ ScanCollectorClose
       \/ ScanWaitDone
       \/ WriteResults
       \/ \E w \in Workers : WorkerCtxDone(w)
       \/ \E w \in Workers : WorkerReceive(w)
       \/ \E w \in Workers : WorkerChanClosed(w)
       \/ \E w \in Workers : WorkerDial(w)
       \/ \E w \in Workers : WorkerSend(w)
       \/ ForwardReceive
       \/ ForwardChanClosed
       \/ ForwardSubmit
       \/ CollectReceive
       \/ CollectLock
       \/ CollectAppend
       \/ CollectCount
       \/ CollectDone

SpecFull == InitFull /\ [][NextFull]_vars

\* ------------------------------------------------- the Collector on its own
\* NewCollector has run; client goroutines call Submit, one goroutine calls
\* Close, and any goroutine may call GetSummary at any time
Statuses == {StatusOpen, StatusClosed, StatusFiltered, StatusError}

Clients == 1 .. MaxClients

CollConfig == [Workers |-> 1, Targets |-> <<1>>, Ports |-> <<1>>, Verbose |-> FALSE, RateLimit |-> 0]

InitColl == /\ InitState(CollConfig, DialOutcomes, "none", "idle")
            /\ GetIdle /\ SigInit /\ CidrIdle /\ PortsIdle /\ LimiterIdle

\* a client calls c.Submit(r)
ClientSubmit(c) ==
    /\ submitCount < MaxSubmits
    /\ \E st \in Statuses : CollectorSubmit([IP |-> c, Port |-> submitCount + 1, Status |-> st])
    /\ UNCHANGED <<cfgVars, auxVars, wout, cancelAt, cancelled, scanPC, scanErr, genVars, poolVars, sResultChan,
                   sResultClosed, fwdVars, cResultClosed, collVars, mpc, submitted, readVars,
                   closerPC>>

\* a client calls c.Close(): close(c.resultChan)
ClientClose ==
    /\ closerPC = "idle"
    /\ CloseResultChan
    /\ closerPC' = "waitDone"
    /\ UNCHANGED <<cfgVars, auxVars, wout, cancelAt, cancelled, scanPC, scanErr, genVars, poolVars, sResultChan,
                   sResultClosed, fwdVars, collVars, mpc, submitted, readVars>>

\* c.Close(): <-c.doneChan, the end time is set and Close returns
ClientCloseReturn ==
    /\ closerPC = "waitDone"
    /\ doneChan
    /\ closerPC' = "closed"
    /\ UNCHANGED <<cfgVars, auxVars, wout, cancelAt, cancelled, scanPC, scanErr, genVars, poolVars, sResultChan,
                   sResultClosed, fwdVars, collChanVars, collVars, mpc, panicked, submitted,
                   readVars>>

\* a client calls c.GetSummary() and keeps what it returned
ClientGetSummary ==
    /\ \E s \in {summary} :
          /\ GetSummary(s)
          /\ summaryRead' = s
    /\ submitsAtRead' = submitCount
    /\ hasRead' = TRUE
    /\ UNCHANGED <<cfgVars, auxVars, wout, cancelAt, cancelled, scanPC, scanErr, genVars, poolVars, sResultChan,
                   sResultClosed, fwdVars, collChanVars, collVars, mpc, panicked, submitted,
                   closerPC>>

NextColl ==
    /\ ~panicked
    /\ \/ \E c \in Clients : ClientSubmit(c)
       \/ ClientClose
       \/ ClientCloseReturn
       \/ ClientGetSummary
       \/ CollectReceive
       \/ CollectLock
       \/ CollectAppend
       \/ CollectCount
       \/ CollectDone

SpecColl == InitColl /\ [][NextColl]_vars

\* ------------------------------------------- the Collector's result list
\* Collector.GetResults: c.mu.Lock(); defer c.mu.Unlock(); a copy of c.results
\* is returned: the call returns r
GetResults(r) ==
    /\ mu = "free"
    /\ r = results

\* a client calls c.GetResults() and keeps what it returned
ClientGetResults ==
    /\ \E r \in {results} :
          /\ GetResults(r)
          /\ resultsRead' = r
    /\ readPhase' = closerPC
    /\ UNCHANGED <<cfgVars, sigVars, cidrVars, ppVars, rateVars, progVars, limVars, wout, cancelAt, cancelled, scanPC, scanErr,
                   genVars, poolVars, sResultChan, sResultClosed, fwdVars, collChanVars, collVars,
                   mpc, panicked, submitted, readVars, closerPC>>

\* after Close has returned the closing goroutine calls c.WriteResults(), as Scan
\* does: under c.mu, sort.Slice sorts c.results in place
ClientWriteResults ==
    /\ closerPC = "closed"
    /\ mu = "free"
    /\ results' = SortResults(results)
    /\ closerPC' = "written"
    /\ UNCHANGED <<cfgVars, auxVars, wout, cancelAt, cancelled, scanPC, scanErr, genVars, poolVars,
                   sResultChan, sResultClosed, fwdVars, collChanVars, doneChan, mu, cpc, cheld,
                   summary, mpc, panicked, submitted, readVars>>

NextResults ==
    /\ ~panicked
    /\ \/ \E c \in Clients : ClientSubmit(c)
       \/ ClientClose
       \/ ClientCloseReturn
       \/ ClientWriteResults
       \/ ClientGetResults
       \/ CollectReceive
       \/ CollectLock
       \/ CollectAppend
       \/ CollectCount
       \/ CollectDone

SpecResults == InitColl /\ [][NextResults]_vars

\* ------------------------------------------- Collector.Close invoked twice
\* a second c.Close() on the same Collector, while the first one waits for
\* doneChan or after it has returned: its first statement is close(c.resultChan)
\* again, and Close has no result to report anything with
ClientCloseAgain ==
    /\ closerPC \in {"waitDone", "closed"}
    /\ CloseResultChan
    /\ closerPC' = "closedTwice"
    /\ UNCHANGED <<cfgVars, auxVars, wout, cancelAt, cancelled, scanPC, scanErr, genVars, poolVars, sResultChan,
                   sResultClosed, fwdVars, collVars, mpc, submitted, readVars>>

NextClose ==
    /\ ~panicked
    /\ \/ \E c \in Clients : ClientSubmit(c)
       \/ ClientClose
       \/ ClientCloseReturn
       \/ ClientCloseAgain
       \/ ClientGetSummary
       \/ CollectReceive
       \/ CollectLock
       \/ CollectAppend
       \/ CollectCount
       \/ CollectDone

SpecClose == InitColl /\ [][NextClose]_vars

\* ------------------------------------------------- main's signal handling
\* sigChan := make(chan os.Signal, 1)
SigChanCap == 1

\* the configuration of the runs that are interrupted
SigConfig == [Workers |-> 1,
              Targets |-> <<1>>,
              Ports |-> [i \in 1 .. MaxTasks |-> i],
              Verbose |-> FALSE,
              RateLimit |-> 0]

InitSignal == /\ InitState(SigConfig, {"refused"}, "start", "none")
              /\ GetIdle /\ SigInit /\ CidrIdle /\ PortsIdle /\ LimiterIdle

\* SIGINT or SIGTERM reaches the process while signal.Notify(sigChan, ...) is in
\* force (main never calls signal.Stop): the runtime does not take the default
\* action, it sends on sigChan without blocking, so the signal is dropped when
\* the buffer is full
Interrupt ==
    /\ interrupts < MaxInterrupts
    /\ interrupts' = interrupts + 1
    /\ sigChan' = IF sigChan < SigChanCap THEN sigChan + 1 ELSE sigChan
    /\ killed' = killed
    /\ UNCHANGED <<cfgVars, getVars, cidrVars, ppVars, rateVars, progVars, limVars, wout, sigPC, cancelCalls, cancelAt, cancelled,
                   scanPC, scanErr, genVars, poolVars, sResultChan, sResultClosed, fwdVars,
                   collChanVars, collVars, mpc, panicked, submitted, readVars, closerPC>>

SigHandlerLoop ==
    /\ sigPC = "wait"
    /\ sigChan > 0
    /\ sigChan' = sigChan - 1
    /\ cancelCalls' = cancelCalls + 1
    /\ cancelled' = TRUE
    /\ cancelAt' = IF cancelled THEN cancelAt ELSE Len(submitted)
    /\ sigPC' = "wait"
    /\ UNCHANGED <<cfgVars, getVars, cidrVars, ppVars, rateVars, progVars, limVars, wout, interrupts, killed, scanPC, scanErr,
                   genVars, poolVars, sResultChan, sResultClosed, fwdVars, collChanVars, collVars,
                   mpc, panicked, submitted, readVars, closerPC>>

\* the signal goroutine: <-sigChan; the message is printed; cancel(); the
\* goroutine ends
SigHandler ==
    /\ sigPC = "wait"
    /\ sigChan > 0
    /\ sigChan' = sigChan - 1
    /\ cancelCalls' = cancelCalls + 1
    /\ cancelled' = TRUE
    /\ cancelAt' = IF cancelled THEN cancelAt ELSE Len(submitted)
    /\ sigPC' = "done"
    /\ UNCHANGED <<cfgVars, getVars, cidrVars, ppVars, rateVars, progVars, limVars, wout, interrupts, killed, scanPC, scanErr,
                   genVars, poolVars, sResultChan, sResultClosed, fwdVars, collChanVars, collVars,
                   mpc, panicked, submitted, readVars, closerPC>>

NextSignal ==
    /\ ~panicked
    /\ \/ Interrupt
       \/ SigHandler
       \/ ScanStart
       \/ GenCheck
       \/ SubmitCancelled
       \/ GenSubmitFailed
       \/ SubmitSend
       \/ PoolClose
       \/ CloseResults
       \/ ScanCollectorClose
       \/ ScanWaitDone
       \/ WriteResults
       \/ \E w \in Workers : WorkerCtxDone(w)
       \/ \E w \in Workers : WorkerReceive(w)
       \/ \E w \in Workers : WorkerChanClosed(w)
       \/ \E w \in Workers : WorkerDial(w)
       \/ \E w \in Workers : WorkerSend(w)
       \/ ForwardReceive
       \/ ForwardChanClosed
       \/ ForwardSubmit
       \/ CollectReceive
       \/ CollectLock
       \/ CollectAppend
       \/ CollectCount
       \/ CollectDone

SpecSignal == InitSignal /\ [][NextSignal]_vars

\* ------------------------------------------------------- the probes of a run
\* what net.DialTimeout can return to a probe: a connection, an error whose
\* Timeout() is true, or another error (refused, host unreachable)
ProbeOutcomes == DialOutcomes \cup {"unreachable"}

ProbeConfig == [Workers |-> 1,
                Targets |-> <<1>>,
                Ports |-> [i \in 1 .. MaxTasks |-> i],
                Verbose |-> FALSE,
                RateLimit |-> 0]

\* every dial of the run may end in any of the ways
InitProbe == /\ InitState(ProbeConfig, ProbeOutcomes, "start", "none")
             /\ GetIdle /\ SigInit /\ CidrIdle /\ PortsIdle /\ LimiterIdle

NextProbe ==
    /\ ~panicked
    /\ \/ ScanStart
       \/ GenCheck
       \/ SubmitSend
       \/ PoolClose
       \/ CloseResults
       \/ ScanCollectorClose
       \/ ScanWaitDone
       \/ WriteResults
       \/ \E w \in Workers : WorkerReceive(w)
       \/ \E w \in Workers : WorkerChanClosed(w)
       \/ \E w \in Workers : WorkerDial(w)
       \/ \E w \in Workers : WorkerSend(w)
       \/ ForwardReceive
       \/ ForwardChanClosed
       \/ ForwardSubmit
       \/ CollectReceive
       \/ CollectLock
       \/ CollectAppend
       \/ CollectCount
       \/ CollectDone

SpecProbe == InitProbe /\ [][NextProbe]_vars

\* ------------------------------------------------------- parser.parseCIDR
\* the variables of a scan session, which the parser does not touch
sessionVars == <<cfgVars, rateVars, progVars, wout, cancelAt, cancelled, scanPC, scanErr, genVars, poolVars,
                 sResultChan, sResultClosed, fwdVars, collChanVars, collVars, mpc, panicked,
                 submitted, readVars, closerPC>>

RECURSIVE Pow2(_)
Pow2(n) == IF n = 0 THEN 1 ELSE 2 * Pow2(n - 1)

\* the bits of byte k (1 .. 4) that a mask of the given length covers
MaskBits(bits, k) ==
    IF bits - 8 * (k - 1) < 0 THEN 0
    ELSE IF bits - 8 * (k - 1) > 8 THEN 8
    ELSE bits - 8 * (k - 1)

\* ip.Mask(net.CIDRMask(bits, 32)): byte by byte, ip[k] & mask[k]
Mask(ip, bits) ==
    [k \in 1 .. 4 |-> ip[k] - (ip[k] % Pow2(8 - MaskBits(bits, k)))]

\* ipNet.Contains(ip): every byte of ip under the mask equals the network's
Contains(ipNet, ip) == Mask(ip, ipNet.Bits) = ipNet.IP

\* incrementIP: from the last byte to the first, ip[j]++ in 8 bits, and the
\* loop stops at the first byte that did not wrap to 0
RECURSIVE incrementFrom(_, _)
incrementFrom(ip, j) ==
    IF j = 0 THEN ip
    ELSE IF (ip[j] + 1) % 256 > 0
         THEN [ip EXCEPT ![j] = (ip[j] + 1) % 256]
         ELSE incrementFrom([ip EXCEPT ![j] = 0], j - 1)

incrementIP(ip) == incrementFrom(ip, Len(ip))

TrimEndsAlways(ips) ==
    IF Len(ips) >= 2 THEN SubSeq(ips, 2, Len(ips) - 1) ELSE ips

\* if len(ips) > 2 { ips = ips[1 : len(ips)-1] }
TrimEnds(ips) ==
    IF Len(ips) > 2 THEN SubSeq(ips, 2, Len(ips) - 1) ELSE ips

\* the addresses and prefix lengths given to parseCIDR
CidrAddrs == {<<a, b, c, d>> : a \in {10, 255}, b \in {0, 255}, c \in {0, 255},
                               d \in {0, 5, 250, 255}}

CidrPrefixes == ((32 - MaxHostBits) .. 32) \cup {32 - MaxWideBits}

\* net.ParseCIDR has returned ip and ipNet (ipNet.IP is ip under the mask), and
\* the loop variable is initialised with ip.Mask(ipNet.Mask)
InitCIDR ==
    /\ InitState(CollConfig, DialOutcomes, "none", "none")
    /\ GetIdle /\ SigInit /\ PortsIdle /\ LimiterIdle
    /\ \E a \in CidrAddrs, bits \in CidrPrefixes :
          /\ cidrNet = [IP |-> Mask(a, bits), Bits |-> bits]
          /\ cidrIP = Mask(a, bits)
    /\ cidrIPs = <<>>
    /\ cidrPC = "loop"

\* one iteration: ipNet.Contains(ip) holds, ips = append(ips, ip.String()),
\* incrementIP(ip)
CidrLoop ==
    /\ cidrPC = "loop"
    /\ Contains(cidrNet, cidrIP)
    /\ cidrIPs' = Append(cidrIPs, cidrIP)
    /\ cidrIP' = incrementIP(cidrIP)
    /\ UNCHANGED <<sessionVars, getVars, sigVars, ppVars, limVars, cidrNet, cidrPC>>

\* the loop ends when ip has left the block; the ends are cut off and
\* parseCIDR returns ips
CidrReturn ==
    /\ cidrPC = "loop"
    /\ ~Contains(cidrNet, cidrIP)
    /\ cidrIPs' = TrimEnds(cidrIPs)
    /\ cidrPC' = "returned"
    /\ UNCHANGED <<sessionVars, getVars, sigVars, ppVars, limVars, cidrNet, cidrIP>>

NextCIDR == CidrLoop \/ CidrReturn

SpecCIDR == InitCIDR /\ [][NextCIDR]_vars

\* ------------------------------------------------------- parser.ParsePorts
\* validatePort: port < 1 || port > 65535 is an error
MinPort == 1
MaxPort == 65535

validatePort(port) == ~(port < MinPort \/ port > MaxPort)

\* the numbers that tokens are written with
PortVals == {0, 1, 3, 65535, 65536}

\* a token of the specification after strings.TrimSpace, by what the code
\* sees of it: "empty" is the empty string; "num" has no '-' and strconv.Atoi
\* gives A; "word" has no '-' and Atoi fails; "range" has a '-', splits in two
\* parts at '-' and Atoi gives A and B; "badrange" has a '-' and does not split
\* in two parts, or Atoi fails on a part
Tokens ==
    {[Kind |-> "empty", A |-> 0, B |-> 0], [Kind |-> "word", A |-> 0, B |-> 0],
     [Kind |-> "badrange", A |-> 0, B |-> 0]}
    \cup {[Kind |-> "num", A |-> a, B |-> 0] : a \in PortVals}
    \cup {t \in [Kind : {"range"}, A : PortVals, B : PortVals] :
             (validatePort(t.A) /\ validatePort(t.B)) => t.B - t.A <= MaxSpan}

\* for p := start; p <= end; p++ { ports = append(ports, p) }
RECURSIVE RangeList(_, _)
RangeList(start, end) ==
    IF start > end THEN <<>> ELSE <<start>> \o RangeList(start + 1, end)

\* parsePortRange, and the single-port branch of ParsePorts: the error of a
\* token, NoErr when it has none
TokenErr(t) ==
    IF t.Kind = "empty" THEN NoErr
    ELSE IF t.Kind = "word" THEN "invalid port"
    ELSE IF t.Kind = "num"
         THEN IF validatePort(t.A) THEN NoErr ELSE "out of valid range"
    ELSE IF t.Kind = "badrange" THEN "invalid port range"
    ELSE IF ~validatePort(t.A) THEN "start port: out of valid range"
    ELSE IF ~validatePort(t.B) THEN "end port: out of valid range"
    ELSE IF t.A > t.B THEN "start port is greater than end port"
    ELSE IF t.B - t.A > MaxPort THEN "port range too large"
    ELSE NoErr

\* the ports of a token that has no error, in the order they are appended
TokenPorts(t) ==
    IF t.Kind = "empty" THEN <<>>
    ELSE IF t.Kind = "num" THEN <<t.A>>
    ELSE RangeList(t.A, t.B)

AppendAll(acc, seen, list) == acc \o list

\* if !seen[p] { ports = append(ports, p); seen[p] = true } for each p of list
RECURSIVE AppendNew(_, _, _)
AppendNew(acc, seen, list) ==
    IF list = <<>> THEN acc
    ELSE IF Head(list) \in seen
         THEN AppendNew(acc, seen, Tail(list))
         ELSE AppendNew(Append(acc, Head(list)), seen \cup {Head(list)}, Tail(list))

\* strings.Split(portSpec, ",") always gives at least one part
TokenSeqs == UNION {[1 .. n -> Tokens] : n \in 1 .. MaxTokens}

\* ParsePorts has split the specification and is before the first part
InitPorts ==
    /\ InitState(CollConfig, DialOutcomes, "none", "none")
    /\ GetIdle /\ SigInit /\ CidrIdle /\ LimiterIdle
    /\ ppTokens \in TokenSeqs
    /\ ppIdx = 1
    /\ ppPorts = <<>>
    /\ ppSeen = {}
    /\ ppErr = Pending
    /\ ppPC = "loop"

\* one iteration over parts that ends with an error: return nil, err
PortsFail ==
    /\ ppPC = "loop"
    /\ ppIdx <= Len(ppTokens)
    /\ TokenErr(ppTokens[ppIdx]) # NoErr
    /\ ppPorts' = <<>>
    /\ ppErr' = TokenErr(ppTokens[ppIdx])
    /\ ppPC' = "returned"
    /\ UNCHANGED <<sessionVars, getVars, sigVars, cidrVars, limVars, ppTokens, ppIdx, ppSeen>>

\* one iteration over parts without an error: the ports of the part that are
\* not yet seen are appended
PortsStep ==
    /\ ppPC = "loop"
    /\ ppIdx <= Len(ppTokens)
    /\ TokenErr(ppTokens[ppIdx]) = NoErr
    /\ ppPorts' = AppendNew(ppPorts, ppSeen, TokenPorts(ppTokens[ppIdx]))
    /\ ppSeen' = ppSeen \cup {TokenPorts(ppTokens[ppIdx])[i] :
                                 i \in 1 .. Len(TokenPorts(ppTokens[ppIdx]))}
    /\ ppIdx' = ppIdx + 1
    /\ UNCHANGED <<sessionVars, getVars, sigVars, cidrVars, limVars, ppTokens, ppErr, ppPC>>

\* after the loop: an empty list is an error, otherwise return ports, nil
PortsReturn ==
    /\ ppPC = "loop"
    /\ ppIdx > Len(ppTokens)
    /\ ppErr' = IF Len(ppPorts) = 0 THEN "no valid ports found" ELSE NoErr
    /\ ppPC' = "returned"
    /\ UNCHANGED <<sessionVars, getVars, sigVars, cidrVars, limVars, ppTokens, ppIdx, ppPorts, ppSeen>>

NextPorts == PortsFail \/ PortsStep \/ PortsReturn

SpecPorts == InitPorts /\ [][NextPorts]_vars

\* ------------------------------------------- the order of task submission
\* scans of several hosts and several ports, with and without a rate limit
OrderConfigs == {c \in [Workers : {1},
                        Targets : {[i \in 1 .. OrderHosts |-> i]},
                        Ports : {[i \in 1 .. OrderPorts |-> i]},
                        Verbose : {FALSE},
                        RateLimit : {0, 1}] : Validate(c)}

InitOrder == /\ \E c \in OrderConfigs : InitState(c, {"refused"}, "start", "none")
             /\ GetIdle /\ SigInit /\ CidrIdle /\ PortsIdle /\ LimiterIdle

NextOrder ==
    /\ ~panicked
    /\ \/ Cancel
       \/ Tick
       \/ ScanStart
       \/ GenCheck
       \/ GenRateCancelled
       \/ GenRateTick
       \/ SubmitCancelled
       \/ GenSubmitFailed
       \/ SubmitSend
       \/ PoolClose
       \/ CloseResults
       \/ ScanCollectorClose
       \/ ScanWaitDone
       \/ WriteResults
       \/ \E w \in Workers : WorkerCtxDone(w)
       \/ \E w \in Workers : WorkerReceive(w)
       \/ \E w \in Workers : WorkerChanClosed(w)
       \/ \E w \in Workers : WorkerDial(w)
       \/ \E w \in Workers : WorkerSend(w)
       \/ ForwardReceive
       \/ ForwardChanClosed
       \/ ForwardSubmit
       \/ CollectReceive
       \/ CollectLock
       \/ CollectAppend
       \/ CollectCount
       \/ CollectDone

SpecOrder == InitOrder /\ [][NextOrder]_vars

\* ------------------------------------------------- the progress monitor
ProgressConfigs == {c \in [Workers : {1},
                           Targets : {<<1>>},
                           Ports : {[i \in 1 .. MaxTasks |-> i]},
                           Verbose : BOOLEAN,
                           RateLimit : {0}] : Validate(c)}

InitProgress == /\ \E c \in ProgressConfigs : InitState(c, {"refused"}, "start", "none")
                /\ GetIdle /\ SigInit /\ CidrIdle /\ PortsIdle /\ LimiterIdle

NextProgress ==
    /\ ~panicked
    /\ \/ Cancel
       \/ ScanStart
       \/ GenCheck
       \/ SubmitCancelled
       \/ GenSubmitFailed
       \/ SubmitSend
       \/ PoolClose
       \/ ProgressWait
       \/ CloseResults
       \/ ScanCollectorClose
       \/ ScanWaitDone
       \/ WriteResults
       \/ \E w \in Workers : WorkerCtxDone(w)
       \/ \E w \in Workers : WorkerReceive(w)
       \/ \E w \in Workers : WorkerChanClosed(w)
       \/ \E w \in Workers : WorkerDial(w)
       \/ \E w \in Workers : WorkerSend(w)
       \/ ForwardReceive
       \/ ForwardChanClosed
       \/ ForwardSubmit
       \/ CollectReceive
       \/ CollectLock
       \/ CollectAppend
       \/ CollectCount
       \/ CollectDone
       \/ MonitorCtxDone
       \/ MonitorReport

SpecProgress == InitProgress /\ [][NextProgress]_vars

\* ------------------------------------------ scanner.New: the rate limiter
\* time.Second, in nanoseconds
TimeSecond == 1000000000

\* the values of cfg.RateLimit given to the program
RateInputs == ((0 - MaxRate) .. MaxRate) \cup ((TimeSecond - MaxRate) .. (TimeSecond + MaxRate))

\* main has filled the configuration and is about to call cfg.Validate()
InitLimiter ==
    /\ InitState(CollConfig, DialOutcomes, "none", "none")
    /\ GetIdle /\ SigInit /\ CidrIdle /\ PortsIdle
    /\ rlRate \in RateInputs
    /\ rlInterval = 0
    /\ rlPC = "validate"

\* cfg.Validate(): main exits when it returns an error, and calls scanner.New
\* otherwise
LimiterValidate ==
    /\ rlPC = "validate"
    /\ rlPC' = IF Validate([CollConfig EXCEPT !.RateLimit = rlRate]) THEN "new" ELSE "rejected"
    /\ UNCHANGED <<sessionVars, getVars, sigVars, cidrVars, ppVars, rlRate, rlInterval>>

\* scanner.New: if cfg.RateLimit > 0 { interval := time.Second /
\* time.Duration(cfg.RateLimit); rateLimiter = time.NewTicker(interval) }, and
\* time.NewTicker panics when its argument is not positive
LimiterNew ==
    /\ rlPC = "new"
    /\ IF rlRate > 0
       THEN /\ rlInterval' = TimeSecond \div rlRate
            /\ rlPC' = IF TimeSecond \div rlRate <= 0 THEN "panic" ELSE "ticking"
       ELSE /\ rlInterval' = rlInterval
            /\ rlPC' = "nolimiter"
    /\ UNCHANGED <<sessionVars, getVars, sigVars, cidrVars, ppVars, rlRate>>

NextLimiter == LimiterValidate \/ LimiterNew

SpecLimiter == InitLimiter /\ [][NextLimiter]_vars

\* ------------------------------- parseCIDR at the highest address
\* 255.255.255.255, after which incrementIP wraps to 0.0.0.0
AllOnes == <<255, 255, 255, 255>>

\* every prefix length of an IPv4 block
WalkPrefixes == 0 .. 32

\* the last addresses before the wrap
WalkStarts == {[AllOnes EXCEPT ![4] = d] : d \in (256 - Pow2(MaxHostBits)) .. 255}

\* parseCIDR is in its loop over a block that holds the highest address, a
\* few addresses before the end of the block: the loop variable passes every
\* address of the block on its way. cidrIPs holds the addresses appended from
\* here on only (the loop condition does not read ips)
InitWalk ==
    /\ InitState(CollConfig, DialOutcomes, "none", "none")
    /\ GetIdle /\ SigInit /\ PortsIdle /\ LimiterIdle
    /\ \E bits \in WalkPrefixes, a \in WalkStarts :
          /\ cidrNet = [IP |-> Mask(AllOnes, bits), Bits |-> bits]
          /\ Contains(cidrNet, a)
          /\ cidrIP = a
    /\ cidrIPs = <<>>
    /\ cidrPC = "loop"

\* an iteration of the loop, followed for MaxWalk iterations
CidrLoopOn ==
    /\ Len(cidrIPs) < MaxWalk
    /\ CidrLoop

NextWalk == CidrLoopOn \/ CidrReturn

SpecWalk == InitWalk /\ [][NextWalk]_vars

\* --------------------------------------------- a scan under fair scheduling
LiveConfigs == {c \in [Workers : {1},
                       Targets : {<<1>>},
                       Ports : {[i \in 1 .. MaxTasks |-> i]},
                       Verbose : BOOLEAN,
                       RateLimit : {0, 1}] : Validate(c)}

InitLive == /\ \E c \in LiveConfigs : InitState(c, {"refused"}, "start", "none")
            /\ GetIdle /\ SigInit /\ CidrIdle /\ PortsIdle /\ LimiterIdle

\* the steps of the goroutine that runs Scan
ScanSteps ==
    \/ ScanStart
    \/ GenCheck
    \/ GenRateCancelled
    \/ GenRateTick
    \/ SubmitCancelled
    \/ GenSubmitFailed
    \/ SubmitSend
    \/ PoolClose
    \/ ProgressWait
    \/ CloseResults
    \/ ScanCollectorClose
    \/ ScanWaitDone
    \/ WriteResults

\* the steps of worker w; net.DialTimeout returns, so WorkerDial is one of them
WorkerSteps(w) ==
    \/ WorkerCtxDone(w)
    \/ WorkerReceive(w)
    \/ WorkerChanClosed(w)
    \/ WorkerDial(w)
    \/ WorkerSend(w)

\* the steps of collectResults
ForwardSteps == ForwardReceive \/ ForwardChanClosed \/ ForwardSubmit

\* the steps of Collector.collect
CollectSteps == CollectReceive \/ CollectLock \/ CollectAppend \/ CollectCount \/ CollectDone

\* the steps of reportProgress; its ticker fires every 5 seconds
MonitorSteps == MonitorCtxDone \/ MonitorTick

NextLive ==
    /\ ~panicked
    /\ \/ Cancel
       \/ Tick
       \/ ScanSteps
       \/ \E w \in Workers : WorkerSteps(w)
       \/ ForwardSteps
       \/ CollectSteps
       \/ MonitorSteps

\* the Go scheduler runs every goroutine that can run, and the tickers tick;
\* nothing obliges cancel() to be called
Fairness ==
    /\ WF_vars(~panicked /\ ScanSteps)
    /\ WF_vars(~panicked /\ WorkerSteps(1))
    /\ WF_vars(~panicked /\ ForwardSteps)
    /\ WF_vars(~panicked /\ CollectSteps)
    /\ WF_vars(~panicked /\ MonitorSteps)
    /\ WF_vars(~panicked /\ Tick)

SpecLive == InitLive /\ [][NextLive]_vars /\ Fairness

\* ------------------------------------------------------------------ claims
\* number of results the Collector holds for task t
ResultCount(t) == Cardinality({i \in 1 .. Len(results) : results[i].IP = t.IP /\ results[i].Port = t.Port})

\* number of copies of task t in the task queue
QueueCount(t) == Cardinality({i \in 1 .. Len(taskChan) : taskChan[i] = t})

\* number of outcomes of task t anywhere between a worker and c.results
OutcomeCount(t) ==
    Cardinality({w \in Workers : wres[w].IP = t.IP /\ wres[w].Port = t.Port})
    + Cardinality({i \in 1 .. Len(sResultChan) : sResultChan[i].IP = t.IP /\ sResultChan[i].Port = t.Port})
    + (IF fheld.IP = t.IP /\ fheld.Port = t.Port THEN 1 ELSE 0)
    + Cardinality({i \in 1 .. Len(cResultChan) : cResultChan[i].IP = t.IP /\ cResultChan[i].Port = t.Port})
    + (IF cpc \in {"lock", "append"} /\ cheld.IP = t.IP /\ cheld.Port = t.Port THEN 1 ELSE 0)
    + ResultCount(t)

StatusSum(s) == s.OpenPorts + s.ClosedPorts + s.Filtered + s.Errors

\* the step in which Scan returns
ScanReturns == scanPC # "returned" /\ scanPC' = "returned"

\* C1: when a Scan that saw no cancellation writes the results and returns, the
\* Collector holds exactly one result for every (host, port) pair and
\* TotalScanned = |hosts| * |ports|, verbose or not, for every worker count.
CexC1 == [][(ScanReturns /\ ~cancelled') =>
              (/\ summary'.TotalScanned = totalTasks
               /\ Len(results') = totalTasks
               /\ \A t \in AllTasks : ResultCount(t)' = 1)]_vars

\* C2: the Collector alone: once Close has returned, TotalScanned, the sum of the
\* four status counters and the length of the result list all equal the number
\* of Submit calls that returned, whatever the interleaving of the submitters.
TheoremC2 == closerPC = "closed" =>
                /\ summary.TotalScanned = submitCount
                /\ StatusSum(summary) = submitCount
                /\ Len(results) = submitCount

WitnessC2 == /\ closerPC = "closed"
             /\ submitCount >= 2
             /\ \E i, j \in 1 .. Len(results) : results[i].IP # results[j].IP

\* C3: under cancellation, every task a worker pulled has its outcome in the
\* Collector and counted in the summary by the time Scan returns.
CexC3 == [][(ScanReturns /\ cancelled') =>
              (\A t \in AllTasks : pullCount'[t] > 0 => ResultCount(t)' = 1)]_vars

\* C4: when cancellation fires during a Scan after some but not all tasks have
\* been submitted, Scan returns context.Canceled.
CexC4 == [][(ScanReturns /\ cancelAt > 0 /\ cancelAt < totalTasks) => scanErr' = Canceled]_vars

\* C5: in every state, cancelled or not, the Collector holds at most one result
\* per task, only results of tasks Pool.Submit accepted, at most |hosts| * |ports|
\* results; a task is pulled by at most one worker and yields at most one outcome.
TheoremC5 == /\ \A t \in AllTasks : ResultCount(t) <= 1
             /\ \A i \in 1 .. Len(results) :
                   [IP |-> results[i].IP, Port |-> results[i].Port] \in Range(submitted)
             /\ Len(results) <= totalTasks
             /\ \A t \in AllTasks : pullCount[t] <= 1
             /\ \A t \in AllTasks : OutcomeCount(t) <= pullCount[t]

WitnessC5 == /\ cancelled
             /\ scanPC = "returned"
             /\ Len(results) >= 1
             /\ Len(results) < Len(submitted)

\* the step in which the select of Pool.Submit takes a case
SubmitActs == scanPC = "genSubmit" /\ scanPC' # "genSubmit"

\* C6 as stated: Pool.Submit run when cancellation has already fired fails with
\* the cancellation error and does not enqueue, whatever the state of the queue.
CexC6 == [][(SubmitActs /\ cancelled) =>
              (scanPC' = "submitFailed" /\ taskChan' = taskChan /\ submitted' = submitted)]_vars

\* C6 amended: Pool.Submit run when cancellation has already fired and the task
\* queue is full fails with the cancellation error, which generateTasks returns,
\* and does not enqueue the task.
TheoremC6 == /\ [][(SubmitActs /\ cancelled /\ Len(taskChan) >= BufferSize(config.Workers)) =>
                     (scanPC' = "submitFailed" /\ taskChan' = taskChan /\ submitted' = submitted)]_vars
             /\ [][(scanPC = "submitFailed" /\ scanPC' # "submitFailed") => genErr' = Canceled]_vars

WitnessC6 == /\ scanPC = "submitFailed"
             /\ Len(taskChan) = BufferSize(config.Workers)

\* C7: Pool.Submit drops no task: on a full queue it waits until there is room
\* or cancellation fires; a task Submit accepted is in the queue once or has
\* been pulled once; the queue holds at most min(10 * workers, 10000) tasks.
TheoremC7 == /\ [](Len(taskChan) <= Min(10 * config.Workers, 10000))
             /\ [](\A t \in Range(submitted) : QueueCount(t) + pullCount[t] = 1)
             /\ [](\A t \in AllTasks \ Range(submitted) : QueueCount(t) + pullCount[t] = 0)
             /\ [][(scanPC = "genSubmit" /\ ~cancelled /\ Len(taskChan) >= Min(10 * config.Workers, 10000))
                      => (scanPC' = "genSubmit" /\ submitted' = submitted)]_vars

WitnessC7 == /\ Len(submitted) = totalTasks
             /\ totalTasks > BufferSize(config.Workers)
             /\ Len(taskChan) = BufferSize(config.Workers)

\* C8 as stated: the TotalScanned a GetSummary call returns equals the number of
\* Collector.Submit calls that returned before the summary was read.
CexC8 == hasRead => summaryRead.TotalScanned = submitsAtRead

\* C8 amended: the TotalScanned a GetSummary call returns never exceeds the number
\* of Submit calls that returned before the read; it is that number less the
\* results still queued in c.resultChan or received by collect and not yet counted.
TheoremC8 == /\ [](hasRead => summaryRead.TotalScanned <= submitsAtRead)
             /\ [][ClientGetSummary =>
                     summaryRead'.TotalScanned =
                        submitCount - Len(cResultChan) - (IF cpc = "lock" THEN 1 ELSE 0)]_vars

WitnessC8 == /\ hasRead
             /\ summaryRead.TotalScanned >= 1
             /\ summaryRead.TotalScanned < submitsAtRead

\* C9: every summary GetSummary returns has
\* OpenPorts + ClosedPorts + Filtered + Errors = TotalScanned.
TheoremC9 == hasRead => StatusSum(summaryRead) = summaryRead.TotalScanned

WitnessC9 == /\ hasRead
             /\ summaryRead.TotalScanned >= 2
             /\ summaryRead.OpenPorts >= 1
             /\ summaryRead.Errors >= 1
             /\ closerPC = "idle"
             /\ mu = "collect"

\* C10: Pool.Close returns only after every worker of the pool has finished, so
\* the result channel is closed only once every worker has stopped.
CexC10 == /\ [][(scanPC = "poolClose" /\ scanPC' # "poolClose") =>
                  (\A w \in Workers : wpc'[w] = "exit")]_vars
          /\ [](sResultClosed => \A w \in Workers : wpc[w] = "exit")

\* s is in ascending order of (IP, port)
SortedByIPPort(s) ==
    \A i, j \in 1 .. Len(s) :
       i < j => (s[i].IP < s[j].IP \/ (s[i].IP = s[j].IP /\ s[i].Port <= s[j].Port))

\* C11 as stated: whatever GetResults returns, whenever it is called, is sorted
\* by (IP, port) ascending.
CexC11 == readPhase # "none" => SortedByIPPort(resultsRead)

\* C11 amended: GetResults returns a copy of c.results as it is at the call: in
\* the order the results were collected until WriteResults has run, and sorted
\* by (IP, port) ascending for every call made after WriteResults has run.
TheoremC11 == /\ [](readPhase = "written" => SortedByIPPort(resultsRead))
              /\ [][ClientGetResults => resultsRead' = results]_vars
              /\ [][ClientGetResults /\ closerPC # "written" =>
                      \A i \in 1 .. Len(resultsRead') : resultsRead'[i].Port = i]_vars

WitnessC11 == /\ readPhase = "written"
              /\ Len(resultsRead) >= 2
              /\ resultsRead[1].Port > resultsRead[2].Port

\* C12 as stated: a second invocation of Collector.Close reports its failure to
\* the caller as an error outcome: the process does not crash.
CexC12 == closerPC = "closedTwice" => ~panicked

\* C12 amended: the first invocation of Collector.Close closes the queue without
\* a panic and returns once collect has signalled doneChan; a second invocation
\* panics in close(c.resultChan) (close of closed channel): Close has no error
\* result, and the panic ends the process.
TheoremC12 == /\ [][ClientClose => (cResultClosed' /\ ~panicked')]_vars
              /\ [][ClientCloseReturn => (doneChan /\ ~panicked')]_vars
              /\ [][ClientCloseAgain => panicked']_vars
              /\ [](closerPC = "closedTwice" => panicked)

WitnessC12 == /\ closerPC = "closedTwice"
              /\ panicked
              /\ doneChan

\* C13: an interrupt makes the signal goroutine call cancel, and cancel is called
\* at most once in a run: the first interrupt is always handed to the goroutine,
\* a second or later interrupt leaves the cancellation, the number of cancel
\* calls and the goroutine as they are, and no interrupt terminates the process
\* by the signal's default action.
TheoremC13 == /\ [](cancelCalls <= 1)
              /\ [](~killed)
              /\ [](cancelled <=> cancelCalls = 1)
              /\ [](cancelCalls = 1 => interrupts >= 1)
              /\ [][Interrupt /\ interrupts = 0 => sigChan' = 1]_vars
              /\ [][Interrupt /\ interrupts >= 1 =>
                      UNCHANGED <<cancelled, cancelCalls, cancelAt, killed, sigPC>>]_vars
              /\ [][sigPC = "done" => (sigPC' = "done" /\ cancelCalls' = cancelCalls)]_vars

WitnessC13 == /\ interrupts >= 3
              /\ cancelCalls = 1
              /\ cancelled
              /\ sigPC = "done"
              /\ sigChan = 1

\* every result r that is somewhere between a worker and the Collector's list
AllResults ==
    {wres[w] : w \in {v \in Workers : wres[v] # NoResult}}
    \cup {sResultChan[i] : i \in 1 .. Len(sResultChan)}
    \cup {cResultChan[i] : i \in 1 .. Len(cResultChan)}
    \cup {results[i] : i \in 1 .. Len(results)}
    \cup ({fheld, cheld} \ {NoResult})

\* C14: a probe builds exactly one result for its task, whose status is open iff
\* the connect succeeded, filtered iff it failed with a timeout and closed for
\* every other failure; a failed connect never sets the session's error, no
\* result has status error and the Errors counter stays 0.
TheoremC14 == /\ [](\A w \in Workers : wpc[w] = "send" =>
                      /\ wres[w].IP = wtask[w].IP /\ wres[w].Port = wtask[w].Port
                      /\ (wres[w].Status = StatusOpen <=> wout[w] = "connected")
                      /\ (wres[w].Status = StatusFiltered <=> wout[w] = "timeout")
                      /\ (wout[w] \notin {"connected", "timeout"} => wres[w].Status = StatusClosed))
              /\ [](\A r \in AllResults : r.Status \in {StatusOpen, StatusFiltered, StatusClosed})
              /\ [](summary.Errors = 0)
              /\ [](scanErr \in {Pending, NoErr})
              /\ [][\A w \in Workers : WorkerDial(w) =>
                      /\ wres[w] = NoResult /\ wres'[w] # NoResult
                      /\ scanErr' = scanErr /\ genErr' = genErr /\ ~panicked']_vars

WitnessC14 == /\ \E i \in 1 .. Len(results) : results[i].Status = StatusFiltered
              /\ summary.Filtered = 1
              /\ \E w \in Workers : /\ wpc[w] = "send"
                                    /\ wout[w] = "unreachable"
                                    /\ wres[w].Status = StatusClosed

\* number of addresses of the block parseCIDR expands
BlockSize == Pow2(32 - cidrNet.Bits)

\* distance of address ip from the block's first address
Offset(ip) ==
    (((ip[1] - cidrNet.IP[1]) * 256 + (ip[2] - cidrNet.IP[2])) * 256
       + (ip[3] - cidrNet.IP[3])) * 256 + (ip[4] - cidrNet.IP[4])

\* C15: for a block of more than 2 addresses parseCIDR returns, in ascending
\* order, every address of the block except the first (network) and the last
\* (broadcast); for a block of 1 or 2 addresses it returns every address of
\* the block.
TheoremC15 ==
    cidrPC = "returned" =>
       /\ \A i \in 1 .. Len(cidrIPs) :
             /\ \A k \in 1 .. 4 : cidrIPs[i][k] \in 0 .. 255
             /\ Contains(cidrNet, cidrIPs[i])
       /\ IF BlockSize > 2
          THEN /\ Len(cidrIPs) = BlockSize - 2
               /\ \A i \in 1 .. Len(cidrIPs) : Offset(cidrIPs[i]) = i
          ELSE /\ Len(cidrIPs) = BlockSize
               /\ \A i \in 1 .. Len(cidrIPs) : Offset(cidrIPs[i]) = i - 1

WitnessC15 == /\ cidrPC = "returned"
              /\ cidrNet.Bits = 32 - MaxWideBits
              /\ cidrNet.IP[1] = 255 /\ cidrNet.IP[2] = 255
              /\ Len(cidrIPs) > 256
              /\ cidrIPs[1] = incrementIP(cidrNet.IP)
              /\ cidrIPs[Len(cidrIPs)] = <<255, 255, 255, 254>>
              /\ cidrIP = <<0, 0, 0, 0>>

\* token t denotes ports: it is empty, a number in 1 .. 65535, or a range of
\* two numbers in 1 .. 65535 with start <= end
ValidToken(t) ==
    \/ t.Kind = "empty"
    \/ t.Kind = "num" /\ t.A \in 1 .. 65535
    \/ t.Kind = "range" /\ t.A \in 1 .. 65535 /\ t.B \in 1 .. 65535 /\ t.A <= t.B

\* the ports token t denotes
Denoted(t) ==
    IF t.Kind = "num" THEN {t.A}
    ELSE IF t.Kind = "range" THEN t.A .. t.B
    ELSE {}

\* index of the first token that denotes port p
FirstToken(p) ==
    CHOOSE i \in 1 .. Len(ppTokens) :
       /\ p \in Denoted(ppTokens[i])
       /\ \A j \in 1 .. i - 1 : p \notin Denoted(ppTokens[j])

\* C16: when every token is valid ParsePorts returns the denoted ports, each in
\* 1 .. 65535, without duplicates, in the order of their first token and
\* ascending within a range; when a token is out of 1 .. 65535, a malformed
\* range or a range with start > end, ParsePorts stops at the first such token
\* and returns an error and no list.
TheoremC16 ==
    ppPC = "returned" =>
       IF \E i \in 1 .. Len(ppTokens) : ~ValidToken(ppTokens[i])
       THEN /\ ppErr \notin {NoErr, Pending}
            /\ ppPorts = <<>>
            /\ ~ValidToken(ppTokens[ppIdx])
            /\ \A j \in 1 .. ppIdx - 1 : ValidToken(ppTokens[j])
       ELSE IF \A i \in 1 .. Len(ppTokens) : Denoted(ppTokens[i]) = {}
       THEN ppErr = "no valid ports found" /\ ppPorts = <<>>
       ELSE /\ ppErr = NoErr
            /\ \A i \in 1 .. Len(ppPorts) : ppPorts[i] \in 1 .. 65535
            /\ \A i, j \in 1 .. Len(ppPorts) : i # j => ppPorts[i] # ppPorts[j]
            /\ {ppPorts[i] : i \in 1 .. Len(ppPorts)} =
                  UNION {Denoted(ppTokens[i]) : i \in 1 .. Len(ppTokens)}
            /\ \A i, j \in 1 .. Len(ppPorts) :
                  i < j => \/ FirstToken(ppPorts[i]) < FirstToken(ppPorts[j])
                           \/ /\ FirstToken(ppPorts[i]) = FirstToken(ppPorts[j])
                              /\ ppPorts[i] < ppPorts[j]

\* "3,1-3": a port seen before the range that holds it, and the range expanded
WitnessC16 == /\ ppPC = "returned"
              /\ ppErr = NoErr
              /\ Len(ppTokens) >= 2
              /\ ppTokens[1] = [Kind |-> "num", A |-> 3, B |-> 0]
              /\ ppTokens[2] = [Kind |-> "range", A |-> 1, B |-> 3]
              /\ SubSeq(ppPorts, 1, 3) = <<3, 1, 2>>

CexC18 == /\ ~panicked
          /\ sResultClosed => \A w \in Workers : wpc[w] \notin {"dial", "send"}
          /\ cResultClosed => (fpc # "submit" /\ sResultChan = <<>>)

\* C19: whenever Scan returns nil, every task of the cross-product has exactly
\* one result in the Collector and TotalScanned = |hosts| * |ports|, also when
\* cancellation fired after the last task was submitted.
CexC19 == [][(ScanReturns /\ scanErr' = NoErr) =>
               (/\ \A t \in AllTasks : ResultCount(t)' = 1
                /\ summary'.TotalScanned = totalTasks)]_vars

\* the k-th task of the cross-product taken host by host, and port by port
\* within a host
CrossTask(k) ==
    [IP |-> targets[((k - 1) \div Len(ports)) + 1], Port |-> ports[((k - 1) % Len(ports)) + 1]]

\* C20: at every moment the tasks submitted so far are the first tasks of the
\* host-major, port-minor cross-product, none skipped, repeated or reordered,
\* and the task queue holds the last of them in that order, with and without
\* a rate limit.
TheoremC20 == /\ Len(submitted) <= totalTasks
              /\ \A k \in 1 .. Len(submitted) : submitted[k] = CrossTask(k)
              /\ Len(taskChan) <= Len(submitted)
              /\ taskChan = SubSeq(submitted, Len(submitted) - Len(taskChan) + 1, Len(submitted))

WitnessC20 == /\ config.RateLimit > 0
              /\ Len(submitted) = totalTasks
              /\ Len(targets) > 1 /\ Len(ports) > 1
              /\ submitted[2] = [IP |-> targets[1], Port |-> ports[2]]
              /\ submitted[Len(ports) + 1] = [IP |-> targets[2], Port |-> ports[1]]
              /\ Len(taskChan) >= 2

\* the wait for a limiter tick in generateTasks ends
GateEnds == scanPC = "genRate" /\ scanPC' # "genRate"

\* C21 as stated: without a rate limit generateTasks never waits for a tick;
\* with one, the tasks submitted are never more than the ticks fired, and a
\* wait during which cancellation fired before the tick ends with the
\* cancellation error.
CexC21 == /\ [](config.RateLimit = 0 => (scanPC # "genRate" /\ ticksFired = 0))
          /\ [](config.RateLimit > 0 => Len(submitted) <= ticksFired)
          /\ [][(GateEnds /\ cancelled /\ (tickC = 0 \/ tickLate)) =>
                  (genErr' = Canceled /\ submitted' = submitted /\ scanPC' = "poolClose")]_vars

\* C21 amended: without a rate limit generateTasks never waits for a tick;
\* with one, every submission consumes its own tick, so the tasks submitted are
\* never more than the ticks fired; a wait ends with the cancellation error
\* when cancellation has fired and no tick is buffered, and when a tick fires
\* after cancellation the select may take either case.
TheoremC21 == /\ [](config.RateLimit = 0 => (scanPC # "genRate" /\ ticksFired = 0))
              /\ [](config.RateLimit > 0 => Len(submitted) <= ticksFired - tickC)
              /\ [][(config.RateLimit > 0 /\ Len(submitted') > Len(submitted)) =>
                      (scanPC = "genSubmit" /\ ticksFired - tickC > Len(submitted))]_vars
              /\ [][(GateEnds /\ cancelled /\ tickC = 0) =>
                      (genErr' = Canceled /\ submitted' = submitted /\ scanPC' = "poolClose")]_vars
              /\ [][(GateEnds /\ genErr' # Canceled) =>
                      (tickC > 0 /\ tickC' = tickC - 1 /\ scanPC' = "genSubmit")]_vars

WitnessC21 == /\ config.RateLimit > 0
              /\ scanPC = "genRate"
              /\ cancelled
              /\ tickC = 0
              /\ Len(submitted) >= 2
              /\ ticksFired = Len(submitted)

\* what C22 says of every mode and of completion: no monitor and no line
\* without verbose mode, one line per sampling tick, and the monitor ends at
\* the first tick that samples TotalScanned >= totalTasks and prints nothing
\* once it has ended
ProgressRules ==
    /\ [](~config.Verbose => (mpc \in {"new", "off"} /\ progressLines = 0))
    /\ [][progressLines' # progressLines =>
            (mpc = "select" /\ progressLines' = progressLines + 1)]_vars
    /\ [][(progressLines' # progressLines /\ summary.TotalScanned >= totalTasks) =>
            mpc' = "done"]_vars
    /\ [][(progressLines' # progressLines /\ summary.TotalScanned < totalTasks) =>
            mpc' = "select"]_vars
    /\ [][mpc = "done" => (mpc' = "done" /\ progressLines' = progressLines)]_vars

\* C22 as stated: the rules above, and once the session is cancelled the
\* monitor prints no further line.
CexC22 == /\ ProgressRules
          /\ [][cancelled => progressLines' = progressLines]_vars

\* C22 amended: the rules above; once the session is cancelled the monitor, at
\* its select, terminates or, when a sampling tick is ready too, may still
\* print a line; it prints nothing once it has terminated.
TheoremC22 == /\ ProgressRules
              /\ [][(cancelled /\ mpc = "select" /\ mpc' # "select") => mpc' = "done"]_vars
              /\ [](lineLate => (cancelled /\ progressLines >= 1))

WitnessC22 == /\ config.Verbose
              /\ ~cancelled
              /\ mpc = "done"
              /\ progressLines = 2
              /\ summary.TotalScanned = totalTasks

\* C24: for every rate limit R > 0 that Validate accepts, the interval
\* time.Second / R is strictly positive and the creation of the limiter does
\* not fail.
CexC24 == (rlPC \notin {"none", "validate", "rejected"} /\ rlRate > 0) =>
             (TimeSecond \div rlRate > 0 /\ rlPC # "panic")

\* C25: parseCIDR terminates for every block, also when the block holds the
\* highest address: the loop is a function of ip alone, so it ends only if the
\* increment of the block's last address leaves the block, and ip never comes
\* back to the block's first address.
CexC25 == [][(cidrPC = "loop" /\ cidrIP = AllOnes /\ cidrIP' # cidrIP) =>
               (~Contains(cidrNet, cidrIP') /\ cidrIP' # cidrNet.IP)]_vars

\* C23: under fair scheduling, with probes that terminate, every Scan
\* eventually returns, cancelled or not, verbose or not.
CexC23 == <>(scanPC = "returned")

====
